---- MODULE Spec2Model ----
(***************************************************************************)
(* Model of cmd/podman/images/build.go: the `podman build` command.  One   *)
(* behaviour is one process: package init() registers the flags (reading   *)
(* BUILDAH_LAYERS), cobra parses the command line, and build() runs once,  *)
(* step by step, down to the deferred cleanups.                            *)
(*                                                                         *)
(* Go strings are sequences of one-character strings, so that the prefix   *)
(* tests, strings.ToLower and the path/filepath functions are computed     *)
(* character by character, as the library computes them.                   *)
(*                                                                         *)
(* Not modelled, because no checked property reads them: --tag,            *)
(* --build-arg, compression and the runtime flag list (lines 257-265,      *)
(* 279-289, 358-361, 390-401).                                             *)
(***************************************************************************)
EXTENDS Integers, Sequences, FiniteSets, TLC

\* ---------------------------------------------------------------- bounds

\* Longest --file list enumerated in full when no CONTEXT argument is given.
MaxFiles == 2

\* ------------------------------------------------------- string literals

HttpPrefix == <<"h", "t", "t", "p", ":", "/", "/">>
HttpsPrefix == <<"h", "t", "t", "p", "s", ":", "/", "/">>
GitPrefix == <<"g", "i", "t", ":", "/", "/">>
GithubPrefix == <<"g", "i", "t", "h", "u", "b", ".", "c", "o", "m", "/">>
Dash == <<"-">>
DevStdin == <<"/", "d", "e", "v", "/", "s", "t", "d", "i", "n">>
ContainerfileName == <<"C", "o", "n", "t", "a", "i", "n", "e", "r", "f", "i", "l", "e">>
DockerfileName == <<"D", "o", "c", "k", "e", "r", "f", "i", "l", "e">>
Dot == <<".">>
DotDot == <<".", ".">>
StrFalse == <<"f", "a", "l", "s", "e">>
StrZero == <<"0">>
\* buildah.OCI and buildah.DOCKER, the two format families of lines 382-385.
OCI == <<"o", "c", "i">>
DOCKER == <<"d", "o", "c", "k", "e", "r">>
Sep == "/"

\* The environment of the process: its working directory, the directory the
\* remote-context fetcher creates, the sub-directory it may report, and the
\* path given to --logfile.
Cwd == <<"/", "w">>
TempDirName == <<"/", "t">>
SubDirName == <<"s">>
LogfilePath == <<"/", "w", "/", "l", "o", "g">>

\* ------------------------------------------------------ package strings

\* strings.HasPrefix
HasPrefix(s, p) == Len(s) >= Len(p) /\ SubSeq(s, 1, Len(p)) = p

UpperToLower ==
    ("A" :> "a") @@ ("B" :> "b") @@ ("C" :> "c") @@ ("D" :> "d") @@ ("E" :> "e") @@ ("F" :> "f")
    @@ ("G" :> "g") @@ ("H" :> "h") @@ ("I" :> "i") @@ ("J" :> "j") @@ ("K" :> "k") @@ ("L" :> "l")
    @@ ("M" :> "m") @@ ("N" :> "n") @@ ("O" :> "o") @@ ("P" :> "p") @@ ("Q" :> "q") @@ ("R" :> "r")
    @@ ("S" :> "s") @@ ("T" :> "t") @@ ("U" :> "u") @@ ("V" :> "v") @@ ("W" :> "w") @@ ("X" :> "x")
    @@ ("Y" :> "y") @@ ("Z" :> "z")

\* strings.ToLower
RECURSIVE ToLower(_)
ToLower(s) ==
    IF s = <<>> THEN <<>>
    ELSE <<IF Head(s) \in DOMAIN UpperToLower THEN UpperToLower[Head(s)] ELSE Head(s)>>
         \o ToLower(Tail(s))

\* ------------------------------------------------- package path/filepath

\* The elements of a path between its separators, empty ones included.
RECURSIVE SplitPath(_)
SplitPath(s) ==
    IF s = <<>> THEN << <<>> >>
    ELSE LET rest == SplitPath(Tail(s))
         IN  IF Head(s) = Sep THEN << <<>> >> \o rest
             ELSE << <<Head(s)>> \o Head(rest) >> \o Tail(rest)

RECURSIVE JoinElems(_)
JoinElems(elems) ==
    IF elems = <<>> THEN <<>>
    ELSE IF Len(elems) = 1 THEN Head(elems)
    ELSE Head(elems) \o <<Sep>> \o JoinElems(Tail(elems))

\* The element stack of filepath.Clean: empty and "." elements are dropped, ".."
\* pops a preceding element, is dropped at the root and kept otherwise.
RECURSIVE CleanElems(_, _, _)
CleanElems(elems, out, rooted) ==
    IF elems = <<>> THEN out
    ELSE LET e == Head(elems)
             rest == Tail(elems)
         IN  IF e = <<>> \/ e = Dot THEN CleanElems(rest, out, rooted)
             ELSE IF e = DotDot
                  THEN IF out # <<>> /\ out[Len(out)] # DotDot
                       THEN CleanElems(rest, SubSeq(out, 1, Len(out) - 1), rooted)
                       ELSE IF rooted THEN CleanElems(rest, out, rooted)
                       ELSE CleanElems(rest, Append(out, DotDot), rooted)
                  ELSE CleanElems(rest, Append(out, e), rooted)

\* filepath.IsAbs (Unix)
IsAbs(path) == path # <<>> /\ Head(path) = Sep

\* filepath.Clean
Clean(path) ==
    IF path = <<>> THEN Dot
    ELSE LET out == CleanElems(SplitPath(path), <<>>, IsAbs(path))
         IN  IF IsAbs(path) THEN <<Sep>> \o JoinElems(out)
             ELSE IF out = <<>> THEN Dot ELSE JoinElems(out)

\* filepath.Join of two elements: empty elements are ignored, the rest is cleaned.
Join(a, b) ==
    IF a = <<>> /\ b = <<>> THEN <<>>
    ELSE IF a = <<>> THEN Clean(b)
    ELSE IF b = <<>> THEN Clean(a)
    ELSE Clean(a \o <<Sep>> \o b)

\* Index of the last separator of path, 0 when it has none.
RECURSIVE LastSep(_, _)
LastSep(path, i) ==
    IF i = 0 THEN 0
    ELSE IF path[i] = Sep THEN i ELSE LastSep(path, i - 1)

\* filepath.Dir: all but the last element, cleaned.
Dir(path) == Clean(SubSeq(path, 1, LastSep(path, Len(path))))

\* filepath.Abs when os.Getwd succeeds.
Abs(path) == IF IsAbs(path) THEN Clean(path) ELSE Join(Cwd, path)

\* Whether filepath.Abs can fail on path: only os.Getwd can fail, and only a
\* relative path asks for it.
AbsOutcomes(path) == IF IsAbs(path) THEN {TRUE} ELSE BOOLEAN

\* ------------------------------------------------------------- the state

VARIABLES
    env,            \* value of BUILDAH_LAYERS (<<>> when unset, as os.Getenv gives)
    cli,            \* the command line as the user gave it
    buildOpts,      \* the package variable buildOpts (line 66)
    dirs,           \* file system: the directories
    files,          \* file system: the regular files
    pc,             \* position of build()
    containerFiles, \* build's local containerFiles
    contextDir,     \* build's local contextDir
    tempDir,        \* build's local tempDir (<<>> when none was created)
    defers,         \* the deferred calls of build, in the order they were deferred
    logfile,        \* build's local logfile: "nil", "open" or "closed"
    logOutput,      \* logrus' output: "stderr" or "logfile"
    pullPolicy,     \* buildFlagsWrapperToOptions' local pullPolicy
    streams,        \* its locals stdout, stderr and reporter
    apiBuildOpts,   \* <<>> or <<the options it returned>>
    engineCalls,    \* the calls of ImageEngine().Build, with their arguments
    result,         \* what build returned
    trace,          \* history: the steps of build that ran, in order
    effects         \* history: the side effects and external calls, in order

vars ==
    <<env, cli, buildOpts, dirs, files, pc, containerFiles, contextDir, tempDir,
      defers, logfile, logOutput, pullPolicy, streams, apiBuildOpts, engineCalls,
      result, trace, effects>>

\* ------------------------------------------------------------ the inputs

Unset == "unset"
Tri == {Unset, "true", "false"}
IsSet == {Unset, "set"}

\* Values of BUILDAH_LAYERS.
EnvValues ==
    { <<>>,
      <<"0">>,
      <<"f", "a", "l", "s", "e">>,
      <<"F", "A", "L", "S", "E">>,
      <<"F", "a", "l", "s", "e">>,
      <<"f", "A", "l", "S", "e">>,
      <<"1">>,
      <<"t", "r", "u", "e">>,
      <<"0", "0">>,
      <<"f", "a", "l", "s", "e", "y">> }

\* Values of --format.
FormatValues ==
    { OCI,
      DOCKER,
      <<"O", "C", "I">>,
      <<"D", "o", "c", "k", "e", "r">>,
      <<"b", "a", "n", "a", "n", "a">>,
      <<"o", "c", "i", "-", "a", "r", "c", "h", "i", "v", "e">>,
      <<>> }

\* Values of the positional CONTEXT argument: a directory (relative, absolute), a
\* regular file, a missing path, two remote references, and one that only looks
\* like a URL to a reader (the prefix tests are case-sensitive).
ArgDir == <<"c">>
ArgRemote == <<"h", "t", "t", "p", ":", "/", "/", "h", "/", "r">>
ContextArgs ==
    { ArgDir,
      <<"/", "w", "/", "c">>,
      <<"f">>,
      <<"n", "x">>,
      ArgRemote,
      <<"g", "i", "t", "h", "u", "b", ".", "c", "o", "m", "/", "u", "/", "r">>,
      <<"H", "T", "T", "P", ":", "/", "/", "h", "/", "r">> }

\* Values of one --file.
FileLocal == <<"c", "/", "C", "f">>
FileNames ==
    { Dash,
      <<"C", "f">>,
      FileLocal,
      <<"/", "w", "/", "c", "/", "D", "f">>,
      <<"h", "t", "t", "p", ":", "/", "/", "h", "/", "C", "f">>,
      <<"h", "t", "t", "p", "s", ":", "/", "/", "h", "/", "C", "f">>,
      <<"g", "i", "t", ":", "/", "/", "h", "/", "r">>,
      <<"g", "i", "t", "h", "u", "b", ".", "c", "o", "m", "/", "u", "/", "r">>,
      <<"H", "T", "T", "P", ":", "/", "/", "h", "/", "C", "f">>,
      <<"f", "/", "C", "f">>,
      <<"x", "/", ".", ".", "/", "c", "/", "C", "f">> }

\* The file system the process starts in: /w is the working directory, /w/c a
\* directory, /w/f a regular file; whether /w/c holds a Containerfile or a
\* Dockerfile varies.
BaseDirs ==
    { <<"/">>, Cwd, <<"/", "w", "/", "c">>, <<"/", "d", "e", "v">> }
BaseFiles ==
    { <<"/", "w", "/", "f">>, DevStdin }
OptionalFiles ==
    { Join(<<"/", "w", "/", "c">>, ContainerfileName),
      Join(<<"/", "w", "/", "c">>, DockerfileName) }

\* All sequences over S of length at most n.
RECURSIVE SeqsUpTo(_, _)
SeqsUpTo(S, n) ==
    IF n = 0 THEN {<<>>}
    ELSE LET shorter == SeqsUpTo(S, n - 1)
         IN  shorter \cup {Append(s, x) : s \in shorter, x \in S}

\* `podman build c`: no flag set.
DefaultCli ==
    [ squash |-> Unset, squashAll |-> Unset, layers |-> Unset,
      pull |-> Unset, pullAlways |-> Unset, pullNever |-> Unset,
      logfile |-> Unset, memory |-> Unset, memorySwap |-> Unset,
      format |-> OCI, file |-> <<>>, args |-> <<ArgDir>> ]

\* The invocations explored: every combination inside each group of inputs that
\* the code reads together, the other inputs at their defaults.
LayerInvocations ==
    { [env |-> e, fs |-> OptionalFiles,
       cli |-> [DefaultCli EXCEPT !.squash = s, !.squashAll = a, !.layers = l]] :
        e \in EnvValues, s \in Tri, a \in Tri, l \in Tri }

PullInvocations ==
    { [env |-> <<>>, fs |-> OptionalFiles,
       cli |-> [DefaultCli EXCEPT !.pull = p, !.pullAlways = a, !.pullNever = n]] :
        p \in Tri, a \in Tri, n \in Tri }

ScanInvocations ==
    { [env |-> <<>>, fs |-> OptionalFiles,
       cli |-> [DefaultCli EXCEPT !.file = f, !.args = <<>>]] :
        f \in SeqsUpTo(FileNames, MaxFiles) }

ArgInvocations ==
    { [env |-> <<>>, fs |-> x,
       cli |-> [DefaultCli EXCEPT !.file = f, !.args = <<a>>]] :
        x \in SUBSET OptionalFiles, a \in ContextArgs,
        f \in {<<>>, <<Dash>>, <<FileLocal>>} }

LifecycleInvocations ==
    { [env |-> <<>>, fs |-> OptionalFiles,
       cli |-> [DefaultCli EXCEPT !.logfile = g, !.memory = m, !.memorySwap = w,
                                  !.format = t, !.args = a, !.file = f,
                                  !.squash = s, !.layers = s] ] :
        g \in IsSet, m \in IsSet, w \in IsSet, t \in FormatValues,
        a \in {<<>>, <<ArgDir>>, <<ArgRemote>>}, f \in {<<>>, <<FileLocal>>},
        s \in {Unset, "true"} }

Invocations ==
    LayerInvocations \cup PullInvocations \cup ScanInvocations
        \cup ArgInvocations \cup LifecycleInvocations

\* ------------------------------------------------- flags and their defaults

\* cmd.Flags().Changed(name): the user set the flag on the command line.
Changed(name) == cli[name] # Unset

\* Faulty variant: useLayers comparing BUILDAH_LAYERS as it is spelled.
useLayersCaseSensitive(e) ==
    IF e = StrFalse \/ e = StrZero THEN "false" ELSE "true"

\* useLayers returns "false" if BUILDAH_LAYERS is "0" or "false", otherwise "true".
useLayers(e) ==
    IF ToLower(e) = StrFalse \/ e = StrZero THEN "false" ELSE "true"

\* buildOpts after buildFlags has registered the flags with their defaults.
buildFlags(e) ==
    [ Squash |-> FALSE, SquashAll |-> FALSE, Layers |-> (useLayers(e) = "true"),
      Pull |-> TRUE, PullAlways |-> FALSE, PullNever |-> FALSE, ForceRm |-> TRUE,
      Format |-> OCI, File |-> <<>>, Logfile |-> <<>> ]

\* cobra's parse: a flag given on the command line overwrites its default.
BoolFlag(given, default) == IF given = Unset THEN default ELSE given = "true"

ParseFlags(defaults, c) ==
    [ defaults EXCEPT
        !.Squash = BoolFlag(c.squash, @),
        !.SquashAll = BoolFlag(c.squashAll, @),
        !.Layers = BoolFlag(c.layers, @),
        !.Pull = BoolFlag(c.pull, @),
        !.PullAlways = BoolFlag(c.pullAlways, @),
        !.PullNever = BoolFlag(c.pullNever, @),
        !.Format = c.format,
        !.File = c.file,
        !.Logfile = IF c.logfile = Unset THEN @ ELSE LogfilePath ]

\* The process at the call of build: init() and the flag parse are done.
Init ==
    \E inv \in Invocations :
        /\ env = inv.env
        /\ cli = inv.cli
        /\ buildOpts = ParseFlags(buildFlags(inv.env), inv.cli)
        /\ dirs = BaseDirs
        /\ files = BaseFiles \cup inv.fs
        /\ pc = "build"
        /\ containerFiles = <<>>
        /\ contextDir = <<>>
        /\ tempDir = <<>>
        /\ defers = <<>>
        /\ logfile = "nil"
        /\ logOutput = "stderr"
        /\ pullPolicy = "unset"
        /\ streams = <<>>
        /\ apiBuildOpts = <<>>
        /\ engineCalls = <<>>
        /\ result = "running"
        /\ trace = <<>>
        /\ effects = <<>>

\* --------------------------------------------------------------- build()

\* Faulty variant: a return that runs no deferred call.
ReturnWithoutDeferred(err) ==
    /\ result' = err
    /\ pc' = "returned"

\* A return statement of build: the deferred calls run next, if any.
Return(err) ==
    /\ result' = err
    /\ pc' = IF defers = <<>> THEN "returned" ELSE "unwinding"

\* Faulty variant: the conflict test without its squash-all/squash pair.
FlagsConflictNoSquashPair ==
    \/ (Changed("squash") /\ Changed("layers"))
    \/ (Changed("squashAll") /\ Changed("layers"))

\* The condition of lines 158-160.
FlagsConflict ==
    \/ (Changed("squash") /\ Changed("layers"))
    \/ (Changed("squashAll") /\ Changed("layers"))
    \/ (Changed("squashAll") /\ Changed("squash"))

\* Lines 157-162.
CheckConflict ==
    /\ pc = "build"
    /\ trace' = Append(trace, "CheckConflict")
    /\ IF FlagsConflict
       THEN Return("errConflict")
       ELSE pc' = "files" /\ result' = result
    /\ UNCHANGED <<env, cli, buildOpts, dirs, files, containerFiles, contextDir,
                   tempDir, defers, logfile, logOutput, pullPolicy, streams,
                   apiBuildOpts, engineCalls, effects>>

\* The loop of lines 166-172 over buildOpts.File.
RECURSIVE RewriteStdin(_)
RewriteStdin(fs) ==
    IF fs = <<>> THEN <<>>
    ELSE <<IF Head(fs) = Dash THEN DevStdin ELSE Head(fs)>> \o RewriteStdin(Tail(fs))

\* Lines 164-172.
ExtractFiles ==
    /\ pc = "files"
    /\ trace' = Append(trace, "ExtractFiles")
    /\ containerFiles' = RewriteStdin(buildOpts.File)
    /\ pc' = "context"
    /\ UNCHANGED <<env, cli, buildOpts, dirs, files, contextDir, tempDir, defers,
                   logfile, logOutput, pullPolicy, streams, apiBuildOpts,
                   engineCalls, result, effects>>

\* imagebuildah.TempDirForURL: what it may return for url.  A remote reference is
\* fetched into a fresh temporary directory, or the fetch fails; anything else is
\* reported as not remote (an empty tempDir).  `made` says whether the
\* sub-directory it names exists in what was fetched, `cf` whether a Containerfile
\* came with it.
RemoteReference(url) ==
    \/ HasPrefix(url, HttpPrefix)
    \/ HasPrefix(url, HttpsPrefix)
    \/ HasPrefix(url, GitPrefix)
    \/ HasPrefix(url, GithubPrefix)

TempDirForURL(url) ==
    IF RemoteReference(url)
    THEN {[err |-> TRUE, tempDir |-> <<>>, subDir |-> <<>>, made |-> FALSE, cf |-> FALSE]}
         \cup {[err |-> FALSE, tempDir |-> TempDirName, subDir |-> s, made |-> m, cf |-> c] :
                  s \in {<<>>, SubDirName}, m \in BOOLEAN, c \in BOOLEAN}
    ELSE {[err |-> FALSE, tempDir |-> <<>>, subDir |-> <<>>, made |-> FALSE, cf |-> FALSE]}

\* Lines 176-198: a CONTEXT argument was given.
ContextFromArg ==
    /\ pc = "context"
    /\ Len(cli.args) > 0
    /\ trace' = Append(trace, "ResolveContext")
    /\ \E r \in TempDirForURL(cli.args[1]), absOk \in AbsOutcomes(cli.args[1]) :
          LET fetched == IF RemoteReference(cli.args[1]) THEN <<"Fetch">> ELSE <<>>
              ctx == Join(r.tempDir, r.subDir)
          IN  IF r.err
              THEN /\ Return("errTempDir")
                   /\ effects' = effects \o fetched
                   /\ UNCHANGED <<dirs, files, contextDir, tempDir, defers>>
              ELSE IF r.tempDir # <<>>
              THEN /\ tempDir' = r.tempDir
                   /\ defers' = Append(defers, "RemoveAll")
                   /\ contextDir' = ctx
                   /\ dirs' = dirs \cup {r.tempDir} \cup (IF r.made THEN {ctx} ELSE {})
                   /\ files' = files \cup
                        (IF r.made /\ r.cf THEN {Join(ctx, ContainerfileName)} ELSE {})
                   /\ effects' = effects \o fetched \o <<"MkdirTemp">>
                   /\ pc' = "checkContext"
                   /\ result' = result
              ELSE /\ effects' = effects \o fetched
                   /\ UNCHANGED <<dirs, files, tempDir, defers>>
                   /\ IF absOk
                      THEN /\ contextDir' = Abs(cli.args[1])
                           /\ pc' = "checkContext"
                           /\ result' = result
                      ELSE /\ Return("errAbsDir")
                           /\ contextDir' = contextDir
    /\ UNCHANGED <<env, cli, buildOpts, containerFiles, logfile, logOutput,
                   pullPolicy, streams, apiBuildOpts, engineCalls>>

\* Faulty variant: the test without the github.com/ prefix.
LooksRemoteNoGithub(f) ==
    \/ HasPrefix(f, HttpPrefix)
    \/ HasPrefix(f, HttpsPrefix)
    \/ HasPrefix(f, GitPrefix)

\* The test of lines 203-206.
LooksRemote(f) ==
    \/ HasPrefix(f, HttpPrefix)
    \/ HasPrefix(f, HttpsPrefix)
    \/ HasPrefix(f, GitPrefix)
    \/ HasPrefix(f, GithubPrefix)

\* The loop of lines 202-215: the index, from i on, of the entry it stops at, 0
\* when it skips them all.
RECURSIVE FirstLocal(_, _)
FirstLocal(fs, i) ==
    IF i > Len(fs) THEN 0
    ELSE IF LooksRemote(fs[i]) THEN FirstLocal(fs, i + 1)
    ELSE i

\* Lines 199-216: no CONTEXT argument.
ContextFromFiles ==
    /\ pc = "context"
    /\ Len(cli.args) = 0
    /\ trace' = Append(trace, "ResolveContext")
    /\ LET i == FirstLocal(containerFiles, 1)
       IN  IF i = 0
           THEN pc' = "checkContext" /\ UNCHANGED <<contextDir, result>>
           ELSE \E absOk \in AbsOutcomes(containerFiles[i]) :
                  IF absOk
                  THEN /\ contextDir' = Dir(Abs(containerFiles[i]))
                       /\ pc' = "checkContext"
                       /\ result' = result
                  ELSE /\ Return("errAbsFile")
                       /\ contextDir' = contextDir
    /\ UNCHANGED <<env, cli, buildOpts, dirs, files, containerFiles, tempDir, defers,
                   logfile, logOutput, pullPolicy, streams, apiBuildOpts,
                   engineCalls, effects>>

\* utils.IsDir and utils.FileExists: the path is a directory, a regular file.
IsDir(path) == path \in dirs
FileExists(path) == path \in files

\* Lines 218-223.
CheckContext ==
    /\ pc = "checkContext"
    /\ trace' = Append(trace, "CheckContext")
    /\ IF contextDir = <<>> THEN Return("errNoContext")
       ELSE IF ~IsDir(contextDir) THEN Return("errNotDir")
       ELSE pc' = "defaultFile" /\ result' = result
    /\ UNCHANGED <<env, cli, buildOpts, dirs, files, containerFiles, contextDir,
                   tempDir, defers, logfile, logOutput, pullPolicy, streams,
                   apiBuildOpts, engineCalls, effects>>

\* Faulty variant: no Dockerfile fallback when the context has no Containerfile.
DefaultContainerfileNoFallback ==
    /\ pc = "defaultFile"
    /\ trace' = Append(trace, "DefaultContainerfile")
    /\ containerFiles' =
          IF Len(containerFiles) = 0 /\ FileExists(Join(contextDir, ContainerfileName))
          THEN <<Join(contextDir, ContainerfileName)>>
          ELSE containerFiles
    /\ pc' = "openLogfile"
    /\ UNCHANGED <<env, cli, buildOpts, dirs, files, contextDir, tempDir, defers,
                   logfile, logOutput, pullPolicy, streams, apiBuildOpts,
                   engineCalls, result, effects>>

\* Lines 224-230.
DefaultContainerfile ==
    /\ pc = "defaultFile"
    /\ trace' = Append(trace, "DefaultContainerfile")
    /\ containerFiles' =
          IF Len(containerFiles) = 0
          THEN IF FileExists(Join(contextDir, ContainerfileName))
               THEN <<Join(contextDir, ContainerfileName)>>
               ELSE <<Join(contextDir, DockerfileName)>>
          ELSE containerFiles
    /\ pc' = "openLogfile"
    /\ UNCHANGED <<env, cli, buildOpts, dirs, files, contextDir, tempDir, defers,
                   logfile, logOutput, pullPolicy, streams, apiBuildOpts,
                   engineCalls, result, effects>>

\* os.OpenFile(O_CREATE|O_TRUNC|O_WRONLY) may fail (permissions, a missing
\* directory) or create the file.
OpenOutcomes == BOOLEAN

\* Lines 232-240.
OpenLogfile ==
    /\ pc = "openLogfile"
    /\ trace' = Append(trace, "OpenLogfile")
    /\ IF Changed("logfile")
       THEN \E ok \in OpenOutcomes :
              /\ effects' = Append(effects, "OpenFile")
              /\ IF ok
                 THEN /\ logfile' = "open"
                      /\ files' = files \cup {buildOpts.Logfile}
                      /\ defers' = Append(defers, "Close")
                      /\ pc' = "options"
                      /\ result' = result
                 ELSE /\ Return("errOpenLogfile")
                      /\ UNCHANGED <<logfile, files, defers>>
       ELSE /\ pc' = "options"
            /\ UNCHANGED <<logfile, files, defers, result, effects>>
    /\ UNCHANGED <<env, cli, buildOpts, dirs, containerFiles, contextDir, tempDir,
                   logOutput, pullPolicy, streams, apiBuildOpts, engineCalls>>

\* ------------------------------------------- buildFlagsWrapperToOptions()

\* Faulty variant: the pull policy read from the value of --pull, set by the user or not.
PullPolicyIgnoringChanged(flags) ==
    LET p1 == IF flags.Pull THEN "PullAlways" ELSE "PullIfMissing"
        p2 == IF flags.PullAlways THEN "PullAlways" ELSE p1
    IN  IF flags.PullNever THEN "PullIfMissing" ELSE p2

\* Lines 267-277.
PullPolicyOf(flags) ==
    LET p0 == "PullIfMissing"
        p1 == IF Changed("pull") /\ flags.Pull THEN "PullAlways" ELSE p0
        p2 == IF flags.PullAlways THEN "PullAlways" ELSE p1
    IN  IF flags.PullNever THEN "PullIfMissing" ELSE p2

\* Faulty variant: --squash turns squash off and leaves layers as it was.
TranslateSquashKeepsLayers(flags) ==
    LET f1 == IF Changed("squash") /\ flags.Squash
              THEN [flags EXCEPT !.Squash = FALSE]
              ELSE flags
    IN  IF Changed("squashAll")
        THEN [f1 EXCEPT !.Squash = TRUE, !.Layers = FALSE]
        ELSE f1

\* Lines 299-307, and again lines 348-356: flags points at buildOpts (line 242),
\* so both places read and write the same Squash and Layers.
TranslateSquash(flags) ==
    LET f1 == IF Changed("squash") /\ flags.Squash
              THEN [flags EXCEPT !.Squash = FALSE, !.Layers = FALSE]
              ELSE flags
    IN  IF Changed("squashAll")
        THEN [f1 EXCEPT !.Squash = TRUE, !.Layers = FALSE]
        ELSE f1

\* Lines 267-307.
ResolvePolicies ==
    /\ pc = "options"
    /\ trace' = Append(trace, "ResolvePolicies")
    /\ pullPolicy' = PullPolicyOf(buildOpts)
    /\ buildOpts' = TranslateSquash(buildOpts)
    /\ pc' = "streams"
    /\ UNCHANGED <<env, cli, dirs, files, containerFiles, contextDir, tempDir, defers,
                   logfile, logOutput, streams, apiBuildOpts, engineCalls, result,
                   effects>>

\* Faulty variant: the reporter stays on the process's standard error.
BindStreamsReporterStderr ==
    /\ pc = "streams"
    /\ trace' = Append(trace, "BindStreams")
    /\ IF logfile # "nil"
       THEN /\ logOutput' = "logfile"
            /\ effects' = Append(effects, "SetOutput")
            /\ streams' = <<[stdout |-> "logfile", stderr |-> "logfile",
                             reporter |-> "os.Stderr"]>>
       ELSE /\ streams' = <<[stdout |-> "os.Stdout", stderr |-> "os.Stderr",
                             reporter |-> "os.Stderr"]>>
            /\ UNCHANGED <<logOutput, effects>>
    /\ pc' = "memory"
    /\ UNCHANGED <<env, cli, buildOpts, dirs, files, containerFiles, contextDir,
                   tempDir, defers, logfile, pullPolicy, apiBuildOpts, engineCalls,
                   result>>

\* Lines 309-319.
BindStreams ==
    /\ pc = "streams"
    /\ trace' = Append(trace, "BindStreams")
    /\ IF logfile # "nil"
       THEN /\ logOutput' = "logfile"
            /\ effects' = Append(effects, "SetOutput")
            /\ streams' = <<[stdout |-> "logfile", stderr |-> "logfile",
                             reporter |-> "logfile"]>>
       ELSE /\ streams' = <<[stdout |-> "os.Stdout", stderr |-> "os.Stderr",
                             reporter |-> "os.Stderr"]>>
            /\ UNCHANGED <<logOutput, effects>>
    /\ pc' = "memory"
    /\ UNCHANGED <<env, cli, buildOpts, dirs, files, containerFiles, contextDir,
                   tempDir, defers, logfile, pullPolicy, apiBuildOpts, engineCalls,
                   result>>

\* units.RAMInBytes is called, and can fail, only for a flag the user set.
ParseOutcomes(name) == IF Changed(name) THEN BOOLEAN ELSE {TRUE}

\* Faulty variant: a --memory-swap that does not parse is noted and the options are
\* compiled all the same.
ParseMemoryContinues ==
    /\ pc = "memory"
    /\ trace' = Append(trace, "ParseMemory")
    /\ \E okMemory \in ParseOutcomes("memory"), okSwap \in ParseOutcomes("memorySwap") :
          IF ~okMemory THEN Return("errMemory")
          ELSE IF ~okSwap THEN pc' = "namespaces" /\ result' = "errMemorySwap"
          ELSE pc' = "namespaces" /\ result' = result
    /\ UNCHANGED <<env, cli, buildOpts, dirs, files, containerFiles, contextDir,
                   tempDir, defers, logfile, logOutput, pullPolicy, streams,
                   apiBuildOpts, engineCalls, effects>>

\* Lines 321-335.
ParseMemory ==
    /\ pc = "memory"
    /\ trace' = Append(trace, "ParseMemory")
    /\ \E okMemory \in ParseOutcomes("memory"), okSwap \in ParseOutcomes("memorySwap") :
          IF ~okMemory THEN Return("errMemory")
          ELSE IF ~okSwap THEN Return("errMemorySwap")
          ELSE pc' = "namespaces" /\ result' = result
    /\ UNCHANGED <<env, cli, buildOpts, dirs, files, containerFiles, contextDir,
                   tempDir, defers, logfile, logOutput, pullPolicy, streams,
                   apiBuildOpts, engineCalls, effects>>

\* Lines 337-340: parse.NamespaceOptions succeeds or fails.
ParseNamespaces ==
    /\ pc = "namespaces"
    /\ trace' = Append(trace, "ParseNamespaces")
    /\ \E ok \in BOOLEAN :
          IF ok THEN pc' = "squash" /\ result' = result
          ELSE Return("errNamespace")
    /\ UNCHANGED <<env, cli, buildOpts, dirs, files, containerFiles, contextDir,
                   tempDir, defers, logfile, logOutput, pullPolicy, streams,
                   apiBuildOpts, engineCalls, effects>>

\* Lines 348-356.
TranslateSquashAgain ==
    /\ pc = "squash"
    /\ trace' = Append(trace, "TranslateSquash")
    /\ buildOpts' = TranslateSquash(buildOpts)
    /\ pc' = "isolation"
    /\ UNCHANGED <<env, cli, dirs, files, containerFiles, contextDir, tempDir, defers,
                   logfile, logOutput, pullPolicy, streams, apiBuildOpts,
                   engineCalls, result, effects>>

\* Lines 363-377: parse.IsolationOption, parse.IDMappingOptions and
\* parse.SystemContextFromOptions, each of which succeeds or fails.
ParseIsolation ==
    /\ pc = "isolation"
    /\ trace' = Append(trace, "ParseIsolation")
    /\ \E failed \in {"none", "errIsolation", "errIDMapping", "errSystemContext"} :
          IF failed = "none" THEN pc' = "format" /\ result' = result
          ELSE Return(failed)
    /\ UNCHANGED <<env, cli, buildOpts, dirs, files, containerFiles, contextDir,
                   tempDir, defers, logfile, logOutput, pullPolicy, streams,
                   apiBuildOpts, engineCalls, effects>>

\* The switch of lines 381-388 on the lower-cased format: "" is its default case.
ManifestType(format) ==
    IF HasPrefix(format, OCI) THEN "OCIv1ImageManifest"
    ELSE IF HasPrefix(format, DOCKER) THEN "Dockerv2ImageManifest"
    ELSE ""

\* Lines 379-460: the format, then the options are assembled and returned.
AssembleOptions ==
    /\ pc = "format"
    /\ trace' = Append(trace, "AssembleOptions")
    /\ buildOpts' = [buildOpts EXCEPT !.Format = ToLower(@)]
    /\ IF ManifestType(ToLower(buildOpts.Format)) = ""
       THEN /\ Return("errFormat")
            /\ apiBuildOpts' = apiBuildOpts
       ELSE /\ apiBuildOpts' =
                 <<[ ContextDirectory |-> contextDir,
                     Out |-> streams[1].stdout,
                     Err |-> streams[1].stderr,
                     ReportWriter |-> streams[1].reporter,
                     Layers |-> buildOpts.Layers,
                     Squash |-> buildOpts.Squash,
                     ForceRmIntermediateCtrs |-> buildOpts.ForceRm,
                     PullPolicy |-> pullPolicy,
                     OutputFormat |-> ManifestType(ToLower(buildOpts.Format)) ]>>
            /\ pc' = "engine"
            /\ result' = result
    /\ UNCHANGED <<env, cli, dirs, files, containerFiles, contextDir, tempDir, defers,
                   logfile, logOutput, pullPolicy, streams, engineCalls, effects>>

\* ------------------------------------------------- the engine, the return

\* Lines 247-248: the engine builds or fails; build returns what it returned.
EngineBuild ==
    /\ pc = "engine"
    /\ trace' = Append(trace, "EngineBuild")
    /\ effects' = Append(effects, "Build")
    /\ engineCalls' = Append(engineCalls,
                             [files |-> containerFiles, opts |-> apiBuildOpts[1]])
    /\ \E err \in {"nil", "errEngine"} : Return(err)
    /\ UNCHANGED <<env, cli, buildOpts, dirs, files, containerFiles, contextDir,
                   tempDir, defers, logfile, logOutput, pullPolicy, streams,
                   apiBuildOpts>>

\* Whether path is dir or lies under it.
Under(path, dir) == path = dir \/ HasPrefix(path, dir \o <<Sep>>)

\* What logrus writes to when it logs: its output, which may be a file that was
\* closed in the meantime.
LogEvent == IF logOutput = "logfile" /\ logfile = "closed" THEN "LogToClosedFile" ELSE "Log"

\* The deferred calls of build run last deferred, first run, after the return
\* value is set: logfile.Close() (line 239), and the function of lines 185-189,
\* whose os.RemoveAll removes the directory or fails and is logged.
RunDeferred ==
    /\ pc = "unwinding"
    /\ LET call == defers[Len(defers)]
       IN  IF call = "Close"
           THEN /\ logfile' = "closed"
                /\ effects' = Append(effects, "Close")
                /\ UNCHANGED <<dirs, files>>
           ELSE /\ logfile' = logfile
                /\ \E removed \in BOOLEAN :
                     IF removed
                     THEN /\ dirs' = {d \in dirs : ~Under(d, tempDir)}
                          /\ files' = {f \in files : ~Under(f, tempDir)}
                          /\ effects' = Append(effects, "RemoveAll")
                     ELSE /\ effects' = effects \o <<"RemoveAll", LogEvent>>
                          /\ UNCHANGED <<dirs, files>>
    /\ defers' = SubSeq(defers, 1, Len(defers) - 1)
    /\ pc' = IF Len(defers) = 1 THEN "returned" ELSE "unwinding"
    /\ UNCHANGED <<env, cli, buildOpts, containerFiles, contextDir, tempDir,
                   logOutput, pullPolicy, streams, apiBuildOpts, engineCalls, result,
                   trace>>

Next ==
    \/ CheckConflict
    \/ ExtractFiles
    \/ ContextFromArg
    \/ ContextFromFiles
    \/ CheckContext
    \/ DefaultContainerfile
    \/ OpenLogfile
    \/ ResolvePolicies
    \/ BindStreams
    \/ ParseMemory
    \/ ParseNamespaces
    \/ TranslateSquashAgain
    \/ ParseIsolation
    \/ AssembleOptions
    \/ EngineBuild
    \/ RunDeferred

Spec == Init /\ [][Next]_vars

\* ------------------------------------------------------ for the properties

Count(seq, x) == Cardinality({i \in DOMAIN seq : seq[i] = x})

Last(seq) == seq[Len(seq)]

IsPrefixOf(s, t) == Len(s) <= Len(t) /\ SubSeq(t, 1, Len(s)) = s

\* The steps of build in program order.
Steps ==
    << "CheckConflict", "ExtractFiles", "ResolveContext", "CheckContext",
       "DefaultContainerfile", "OpenLogfile", "ResolvePolicies", "BindStreams",
       "ParseMemory", "ParseNamespaces", "TranslateSquash", "ParseIsolation",
       "AssembleOptions", "EngineBuild" >>

\* The step each error is returned from.
StepOfError ==
    [ errConflict |-> "CheckConflict",
      errTempDir |-> "ResolveContext",
      errAbsDir |-> "ResolveContext",
      errAbsFile |-> "ResolveContext",
      errNoContext |-> "CheckContext",
      errNotDir |-> "CheckContext",
      errOpenLogfile |-> "OpenLogfile",
      errMemory |-> "ParseMemory",
      errMemorySwap |-> "ParseMemory",
      errNamespace |-> "ParseNamespaces",
      errIsolation |-> "ParseIsolation",
      errIDMapping |-> "ParseIsolation",
      errSystemContext |-> "ParseIsolation",
      errFormat |-> "AssembleOptions" ]

\* The flags among squash, squash-all and layers that the user set.
LayerFlagsSet == {f \in {"squash", "squashAll", "layers"} : cli[f] # Unset}

\* The compiled configuration, once buildFlagsWrapperToOptions has returned it.
Compiled == apiBuildOpts # <<>>

\* C1: when two or more of squash, squash-all and layers were set by the user,
\* build returns the conflict error before anything else: no other step runs, no
\* fetch, no temporary directory, no log file, no redirection of the log output, no
\* engine call.
C1_ConflictAbortsFirst ==
    Cardinality(LayerFlagsSet) >= 2 =>
        /\ IsPrefixOf(trace, <<"CheckConflict">>)
        /\ pc \in {"build", "returned"}
        /\ result \in {"running", "errConflict"}
        /\ (pc = "returned" => result = "errConflict")
        /\ effects = <<>>
        /\ tempDir = <<>> /\ contextDir = <<>> /\ dirs = BaseDirs
        /\ logfile = "nil" /\ LogfilePath \notin files
        /\ logOutput = "stderr"
        /\ engineCalls = <<>>

C1_Witness ==
    /\ pc = "returned"
    /\ result = "errConflict"
    /\ cli.squashAll = "false"
    /\ cli.squash = "true"
    /\ cli.layers = Unset

\* C2: each resource build acquired is released by exactly one call on every
\* exit path after its acquisition, and not before the engine call has returned:
\* os.RemoveAll is called once for a temporary directory that was created,
\* Close once for a log file that was opened, and only while build is returning.
C2_ReleasedExactlyOnce ==
    LET created == Count(effects, "MkdirTemp")
        opened == IF logfile = "nil" THEN 0 ELSE 1
        releases == {i \in DOMAIN effects : effects[i] \in {"Close", "RemoveAll"}}
    IN  /\ created <= 1
        /\ (created = 1) = (tempDir # <<>>)
        /\ Count(effects, "RemoveAll") <= created
        /\ Count(effects, "Close") <= opened
        /\ (pc = "returned" =>
              /\ Count(effects, "RemoveAll") = created
              /\ Count(effects, "Close") = opened
              /\ (opened = 1 => logfile = "closed"))
        /\ (releases # {} => pc \in {"unwinding", "returned"})
        /\ \A i \in releases : \A j \in DOMAIN effects :
              effects[j] = "Build" => j < i

C2_Witness ==
    /\ pc = "returned"
    /\ result = "errMemorySwap"
    /\ tempDir # <<>>
    /\ Count(effects, "RemoveAll") = 1
    /\ Count(effects, "Close") = 1

\* C3 as stated: in every non-conflicting invocation, whatever BUILDAH_LAYERS is,
\* a squash flag set by the user compiles to squash=false, layers=false and a
\* squash-all flag set by the user to squash=true, layers=false.
C3_Original ==
    (Compiled /\ Cardinality(LayerFlagsSet) < 2) =>
        /\ (cli.squash # Unset =>
              ~apiBuildOpts[1].Squash /\ ~apiBuildOpts[1].Layers)
        /\ (cli.squashAll # Unset =>
              apiBuildOpts[1].Squash /\ ~apiBuildOpts[1].Layers)

\* The spellings of "false" that differ only in case.
FalseSpellings ==
    { <<f, a, l, s, e>> : f \in {"f", "F"}, a \in {"a", "A"}, l \in {"l", "L"},
                          s \in {"s", "S"}, e \in {"e", "E"} }

\* The layers default the environment gives.
EnvLayers == ~(env = StrZero \/ env \in FalseSpellings)

\* C3 amended: --squash given as true compiles to squash=false, layers=false;
\* --squash given as false leaves squash false and layers at its environment
\* default; --squash-all, with either value, compiles to squash=true,
\* layers=false.
C3_SquashTranslation ==
    (Compiled /\ Cardinality(LayerFlagsSet) < 2) =>
        /\ (cli.squash = "true" =>
              ~apiBuildOpts[1].Squash /\ ~apiBuildOpts[1].Layers)
        /\ (cli.squash = "false" =>
              ~apiBuildOpts[1].Squash /\ apiBuildOpts[1].Layers = EnvLayers)
        /\ (cli.squashAll # Unset =>
              apiBuildOpts[1].Squash /\ ~apiBuildOpts[1].Layers)

C3_Witness ==
    /\ Compiled
    /\ cli.squash = "true"
    /\ env = <<>>
    /\ ~apiBuildOpts[1].Squash
    /\ ~apiBuildOpts[1].Layers

\* C4: with neither squash nor squash-all set, the compiled layers value is the
\* value given to --layers if the user set it, and otherwise false exactly when
\* BUILDAH_LAYERS is "0" or "false" in any case.
C4_LayersPrecedence ==
    (Compiled /\ cli.squash = Unset /\ cli.squashAll = Unset) =>
        apiBuildOpts[1].Layers =
            (IF cli.layers # Unset THEN cli.layers = "true" ELSE EnvLayers)

C4_Witness ==
    /\ Compiled
    /\ cli.squash = Unset /\ cli.squashAll = Unset /\ cli.layers = Unset
    /\ env = <<"F", "a", "l", "s", "e">>
    /\ ~apiBuildOpts[1].Layers

\* C5 as stated: no pull flag set gives pull-if-missing; --pull=true gives
\* always-pull; --pull-always gives always-pull; --pull-never gives
\* pull-if-missing; the policy is never a never-pull policy.
C5_Original ==
    Compiled =>
        /\ ((cli.pull = Unset /\ cli.pullAlways = Unset /\ cli.pullNever = Unset) =>
              apiBuildOpts[1].PullPolicy = "PullIfMissing")
        /\ (cli.pull = "true" => apiBuildOpts[1].PullPolicy = "PullAlways")
        /\ (cli.pullAlways = "true" => apiBuildOpts[1].PullPolicy = "PullAlways")
        /\ (cli.pullNever = "true" => apiBuildOpts[1].PullPolicy = "PullIfMissing")
        /\ apiBuildOpts[1].PullPolicy # "PullNever"

\* C5 amended: --pull-never gives pull-if-missing whatever the other two flags
\* are; without it, --pull=true or --pull-always gives always-pull; with no pull
\* flag set the policy is pull-if-missing; it is never a never-pull policy.
C5_PullPolicy ==
    Compiled =>
        /\ ((cli.pull = Unset /\ cli.pullAlways = Unset /\ cli.pullNever = Unset) =>
              apiBuildOpts[1].PullPolicy = "PullIfMissing")
        /\ (cli.pullNever = "true" => apiBuildOpts[1].PullPolicy = "PullIfMissing")
        /\ ((cli.pullNever # "true" /\ cli.pull = "true") =>
              apiBuildOpts[1].PullPolicy = "PullAlways")
        /\ ((cli.pullNever # "true" /\ cli.pullAlways = "true") =>
              apiBuildOpts[1].PullPolicy = "PullAlways")
        /\ apiBuildOpts[1].PullPolicy \in {"PullIfMissing", "PullAlways"}

C5_Witness ==
    /\ Compiled
    /\ cli.pullNever = "true"
    /\ cli.pullAlways = "true"
    /\ cli.pull = "true"
    /\ apiBuildOpts[1].PullPolicy = "PullIfMissing"

\* build is at the engine call: about to make it, or it has just returned and no
\* deferred call has run yet.
AtEngine ==
    \/ pc = "engine"
    \/ (engineCalls # <<>> /\ effects # <<>> /\ Last(effects) = "Build")

\* What the engine is, or was, called with.
EngineArgs ==
    IF engineCalls # <<>> THEN engineCalls[1]
    ELSE [files |-> containerFiles, opts |-> apiBuildOpts[1]]

\* C6: at the engine call the file list is not empty and the context directory
\* is an existing directory that build checked; with no --file the list is the
\* context's Containerfile if that file exists and its Dockerfile otherwise; every
\* --file is passed in its place, "-" as /dev/stdin.
C6_EngineArguments ==
    AtEngine =>
        LET given == cli.file
            passed == EngineArgs.files
            ctx == EngineArgs.opts.ContextDirectory
        IN  /\ passed # <<>>
            /\ ctx = contextDir /\ ctx # <<>> /\ ctx \in dirs
            /\ "CheckContext" \in {trace[i] : i \in DOMAIN trace}
            /\ (given = <<>> =>
                  passed = IF ctx \o <<Sep>> \o ContainerfileName \in files
                           THEN <<ctx \o <<Sep>> \o ContainerfileName>>
                           ELSE <<ctx \o <<Sep>> \o DockerfileName>>)
            /\ (given # <<>> =>
                  /\ Len(passed) = Len(given)
                  /\ \A i \in DOMAIN given :
                        passed[i] = IF given[i] = Dash THEN DevStdin ELSE given[i])
            /\ \A i \in DOMAIN passed : passed[i] # Dash

C6_Witness ==
    /\ engineCalls # <<>>
    /\ AtEngine
    /\ cli.file = <<>>
    /\ engineCalls[1].files = <<contextDir \o <<Sep>> \o DockerfileName>>
    /\ contextDir \o <<Sep>> \o DockerfileName \notin files

\* C7: a failure ends build: the failing step is the last step that runs, the
\* engine is not called, and no step runs twice; the engine is called at most
\* once, and exactly once, with the assembled options, when no step failed.
C7_FailuresAreTerminal ==
    /\ IsPrefixOf(trace, Steps)
    /\ Len(engineCalls) <= 1
    /\ Len(engineCalls) = Count(effects, "Build")
    /\ (result = "running") = (pc \notin {"unwinding", "returned"})
    /\ (result \in DOMAIN StepOfError =>
          /\ Last(trace) = StepOfError[result]
          /\ engineCalls = <<>>)
    /\ (result \in {"nil", "errEngine"} =>
          /\ trace = Steps
          /\ Len(engineCalls) = 1
          /\ Compiled
          /\ engineCalls[1].opts = apiBuildOpts[1]
          /\ engineCalls[1].opts.ContextDirectory = contextDir
          /\ engineCalls[1].opts.PullPolicy \in {"PullIfMissing", "PullAlways"}
          /\ engineCalls[1].opts.OutputFormat
                \in {"OCIv1ImageManifest", "Dockerv2ImageManifest"}
          /\ engineCalls[1].opts.Out \in {"os.Stdout", "logfile"})
    /\ (pc = "returned" => result \in DOMAIN StepOfError \cup {"nil", "errEngine"})

C7_Witness ==
    /\ pc = "returned"
    /\ result = "errMemory"
    /\ logOutput = "logfile"
    /\ tempDir # <<>>
    /\ engineCalls = <<>>

\* C8: with --logfile set and the file opened, the compiled standard output,
\* standard error and reporter are the log file and the log output was redirected
\* to it, once; with --logfile not set, they are the process's stdout, stderr and
\* stderr, no file is opened or created, and the log output is left alone.
C8_StreamBindings ==
    /\ Count(effects, "SetOutput") <= 1
    /\ ((Changed("logfile") /\ logfile # "nil" /\ Compiled) =>
          /\ apiBuildOpts[1].Out = "logfile"
          /\ apiBuildOpts[1].Err = "logfile"
          /\ apiBuildOpts[1].ReportWriter = "logfile"
          /\ logOutput = "logfile"
          /\ Count(effects, "SetOutput") = 1)
    /\ (~Changed("logfile") =>
          /\ logfile = "nil"
          /\ Count(effects, "OpenFile") = 0
          /\ LogfilePath \notin files
          /\ logOutput = "stderr"
          /\ Count(effects, "SetOutput") = 0
          /\ (Compiled =>
                /\ apiBuildOpts[1].Out = "os.Stdout"
                /\ apiBuildOpts[1].Err = "os.Stderr"
                /\ apiBuildOpts[1].ReportWriter = "os.Stderr"))

C8_Witness ==
    /\ Compiled
    /\ Changed("logfile")
    /\ apiBuildOpts[1].ReportWriter = "logfile"
    /\ logOutput = "logfile"
    /\ LogfilePath \in files

\* The prefixes that make a --file entry a remote reference.
RemotePrefixes == {HttpPrefix, HttpsPrefix, GitPrefix, GithubPrefix}

\* The i-th --file entry as the scan sees it.
Entry(i) == IF cli.file[i] = Dash THEN DevStdin ELSE cli.file[i]

\* The positions of the --file entries that carry none of the remote prefixes.
LocalEntries ==
    {i \in DOMAIN cli.file : \A p \in RemotePrefixes : ~HasPrefix(Entry(i), p)}

\* C9: with no CONTEXT argument the context directory is the directory of the
\* absolute path of the first --file entry that has none of the remote prefixes,
\* whatever follows it; with no such entry build fails with the no-context error,
\* having fetched nothing, opened no log file and called no engine.
C9_ContextFromFirstLocalFile ==
    (cli.args = <<>> /\ Count(trace, "ResolveContext") = 1) =>
        IF LocalEntries = {}
        THEN /\ contextDir = <<>>
             /\ result \in {"running", "errNoContext"}
             /\ (pc = "returned" => result = "errNoContext")
             /\ effects = <<>>
             /\ logfile = "nil"
             /\ engineCalls = <<>>
        ELSE LET first == CHOOSE i \in LocalEntries : \A j \in LocalEntries : i <= j
             IN  \/ result = "errAbsFile" /\ contextDir = <<>>
                 \/ /\ result # "errAbsFile"
                    /\ contextDir = Dir(Abs(Entry(first)))
                    /\ (Compiled => apiBuildOpts[1].ContextDirectory = contextDir)

C9_Witness ==
    /\ cli.args = <<>>
    /\ Len(cli.file) = 2
    /\ HasPrefix(cli.file[1], GithubPrefix)
    /\ cli.file[2] = Dash
    /\ contextDir = <<"/", "d", "e", "v">>
    /\ engineCalls # <<>>

\* C10: the log output never refers to a closed log file, and nothing is logged
\* to one.
C10_LogOutputStaysOpen ==
    /\ ~(logOutput = "logfile" /\ logfile = "closed")
    /\ Count(effects, "LogToClosedFile") = 0
====
